---- MODULE Spec2Model ----
(***************************************************************************)
(* Model of script.py: SimulatedSensor, VirtualCarSimulator and the        *)
(* DigitalTwinTester driver run by main().                                 *)
(*                                                                         *)
(* Numbers.  The program computes in binary floating point.  The model     *)
(* computes in decimal fixed point: every sensor value and the throttle    *)
(* are integers counting 1/Scale of the program's unit (800 rpm is         *)
(* 800 * Scale), mileage counts 1/MileageScale km.  Each assignment of the *)
(* program is one fixed-point expression, rounded to nearest when the      *)
(* value is stored (OIL_PRESSURE also rounds its two factors).  Against    *)
(* the program's floats the stored values differ by less than 0.01 of the  *)
(* program's unit over 150 calls.  A Python argument is a record           *)
(* [kind, v]: an int n is [kind |-> "int", v |-> n], a float x is          *)
(* [kind |-> "float", v |-> x * Scale].                                    *)
(***************************************************************************)
EXTENDS Integers, Sequences, FiniteSets, TLC

Scale == 10^3
MileageScale == 10^4

\* Bounds of the model (numbers of calls explored).
MaxTicks == 5
MaxPrefixTicks == 3
MaxReadTicks == 8
MaxDriveTicks == 40
MaxIdleCalls == 85

\* Number of set_throttle(0) calls within which RPM is within 1 of 800.
ConvergeCalls == 81

----------------------------------------------------------------------------
(* Arithmetic helpers *)

\* a / b rounded to the nearest integer (b > 0 and even), halves upward.
RoundDiv(a, b) == (a + (b \div 2)) \div b

Abs(x) == IF x < 0 THEN -x ELSE x

\* np.clip(x, lo, hi) on scalars: minimum(maximum(x, lo), hi)
np_clip(x, lo, hi) ==
    LET m == IF x < lo THEN lo ELSE x
    IN  IF m > hi THEN hi ELSE m

PyInt(n) == [kind |-> "int", v |-> n]
PyFloat(milli) == [kind |-> "float", v |-> milli]

\* The numeric value of a Python number, in 1/Scale units.
Milli(x) == IF x.kind = "int" THEN x.v * Scale ELSE x.v

----------------------------------------------------------------------------
(* SimulatedSensor *)

Channels == {"RPM", "SPEED", "COOLANT_TEMP", "ENGINE_LOAD", "THROTTLE_POS",
             "INTAKE_TEMP", "MAF", "FUEL_RATE", "OIL_TEMP", "OIL_PRESSURE"}

\* The value each channel is constructed with.
InitialValue ==
    [RPM |-> 800 * Scale, SPEED |-> 0, COOLANT_TEMP |-> 85 * Scale,
     ENGINE_LOAD |-> 20 * Scale, THROTTLE_POS |-> 15 * Scale,
     INTAKE_TEMP |-> 25 * Scale, MAF |-> 5 * Scale,
     FUEL_RATE |-> 8 * (Scale \div 10), OIL_TEMP |-> 80 * Scale,
     OIL_PRESSURE |-> 40 * Scale]

min_value ==
    [RPM |-> 0, SPEED |-> 0, COOLANT_TEMP |-> 60 * Scale, ENGINE_LOAD |-> 0,
     THROTTLE_POS |-> 0, INTAKE_TEMP |-> 20 * Scale, MAF |-> 0,
     FUEL_RATE |-> 0, OIL_TEMP |-> 60 * Scale, OIL_PRESSURE |-> 15 * Scale]

max_value ==
    [RPM |-> 7000 * Scale, SPEED |-> 200 * Scale, COOLANT_TEMP |-> 120 * Scale,
     ENGINE_LOAD |-> 100 * Scale, THROTTLE_POS |-> 100 * Scale,
     INTAKE_TEMP |-> 80 * Scale, MAF |-> 200 * Scale,
     FUEL_RATE |-> 20 * Scale, OIL_TEMP |-> 120 * Scale,
     OIL_PRESSURE |-> 80 * Scale]

noise_level ==
    [RPM |-> 50 * Scale, SPEED |-> 2 * Scale, COOLANT_TEMP |-> 1 * Scale,
     ENGINE_LOAD |-> 2 * Scale, THROTTLE_POS |-> 1 * Scale,
     INTAKE_TEMP |-> 5 * (Scale \div 10), MAF |-> 5 * (Scale \div 10),
     FUEL_RATE |-> 1 * (Scale \div 10), OIL_TEMP |-> 1 * Scale,
     OIL_PRESSURE |-> 2 * Scale]

\* get_unit: the display unit of a channel name
get_unit(name) ==
    CASE name = "RPM" -> "rpm"
      [] name = "SPEED" -> "km/h"
      [] name \in {"COOLANT_TEMP", "INTAKE_TEMP", "OIL_TEMP"} -> "°C"
      [] name \in {"ENGINE_LOAD", "THROTTLE_POS"} -> "%"
      [] name = "MAF" -> "g/s"
      [] name = "FUEL_RATE" -> "L/h"
      [] name = "OIL_PRESSURE" -> "psi"
      [] OTHER -> ""

\* v is a decimal tie of round(value, 2): it ends in exactly half of 1/100
IsTie(v) == 2 * (v % (Scale \div 100)) = Scale \div 100

\* The program rounds the binary double standing for the value.  The double
\* nearest to a decimal tie lies just above or just below it, so the tie
\* goes up or down by the double's error (round(1.015, 2) is 1.01,
\* round(0.545, 2) is 0.55): either way is an outcome.
TieBreaks(v) == IF IsTie(v) THEN {TRUE, FALSE} ELSE {FALSE}

\* round(value, 2): to the nearest 1/100; on a decimal tie up if the double
\* lies above the tie (up), down if it lies below
round2(v, up) ==
    LET q == Scale \div 100
        lo == (v \div q) * q
        r == v - lo
    IN  IF 2 * r < q THEN lo
        ELSE IF 2 * r > q THEN lo + q
        ELSE IF up THEN lo + q ELSE lo

\* Faulty variant of read: the noisy value is returned unclipped.
read_unclipped(name, v, noise, up) ==
    [kind |-> "Reading", command |-> name, value |-> round2(v + noise, up),
     unit |-> get_unit(name)]

\* SimulatedSensor.read of channel name holding stored value v, with noise
\* the draw of random.uniform(-noise_level, noise_level); the timestamp is
\* the wall clock and is left out; up is the way a decimal tie goes.
read(name, v, noise, up) ==
    LET value == np_clip(v + noise, min_value[name], max_value[name])
    IN  [kind |-> "Reading", command |-> name, value |-> round2(value, up),
         unit |-> get_unit(name)]

----------------------------------------------------------------------------
(* VirtualCarSimulator *)

VARIABLES
    sensors,    \* channel name -> stored (pre-noise) value, 1/Scale units
    throttle,   \* self.throttle, 1/Scale units
    gear,       \* self.gear, a Python number
    mileage,    \* self.mileage, 1/MileageScale km
    result,     \* outcome of the last call: None, a raised TypeError or
                \* KeyboardInterrupt, or a Reading
    lastCall,   \* the last call made on the simulator and its argument
    ticks,      \* number of set_throttle / set_gear calls made so far
    idleRun     \* number of consecutive latest calls that were set_throttle
                \* calls storing throttle 0

(* DigitalTwinTester and main() *)
VARIABLES
    pc,          \* where main() stands: function, statement, loop index
    history,     \* self.history: one entry per appended snapshot
    exportFile,  \* digital_twin_test_data.json
    interrupted  \* a KeyboardInterrupt was raised in run_full_test_suite

simVars == <<sensors, throttle, gear, mileage, result, lastCall, ticks, idleRun>>
testerVars == <<pc, history, exportFile, interrupted>>
vars == <<sensors, throttle, gear, mileage, result, lastCall, ticks, idleRun,
          pc, history, exportFile, interrupted>>

\* gear_ratios = [0, 3.5, 2.5, 1.8, 1.3, 1.0, 0.8], in tenths
gear_ratios == [k \in 0..6 |->
    CASE k = 0 -> 0 [] k = 1 -> 35 [] k = 2 -> 25 [] k = 3 -> 18
      [] k = 4 -> 13 [] k = 5 -> 10 [] k = 6 -> 8]

None == [kind |-> "None", command |-> "", value |-> 0, unit |-> ""]
TypeError == [kind |-> "TypeError", command |-> "", value |-> 0, unit |-> ""]
Interrupted ==
    [kind |-> "KeyboardInterrupt", command |-> "", value |-> 0, unit |-> ""]

\* Faulty variants of next_rpm: a target of 800 + throttle * 5, a step of
\* 0.05 instead of 0.1, and a step away from the target.
next_rpm_gain5(rpm, th) ==
    LET target_rpm == 800 * Scale + th * 5
    IN  rpm + RoundDiv(target_rpm - rpm, 10)

next_rpm_slow(rpm, th) ==
    LET target_rpm == 800 * Scale + th * 50
    IN  rpm + RoundDiv(target_rpm - rpm, 20)

next_rpm_away(rpm, th) ==
    LET target_rpm == 800 * Scale + th * 50
    IN  rpm - RoundDiv(target_rpm - rpm, 10)

\* target_rpm = 800 + throttle * 50; rpm += (target_rpm - rpm) * 0.1
next_rpm(rpm, th) ==
    LET target_rpm == 800 * Scale + th * 50
    IN  rpm + RoundDiv(target_rpm - rpm, 10)

\* speed = rpm * gear_ratios[gear] / 60
speed_of(rpm, g) == RoundDiv(rpm * gear_ratios[g], 600)

\* Faulty variant of engine_load_of: throttle * 7
engine_load_unscaled(th) == th * 7

\* ENGINE_LOAD = throttle * 0.7
engine_load_of(th) == RoundDiv(th * 7, 10)

\* heat_gen = rpm / 1000 * 0.2 + throttle * 0.05
\* cooling = (coolant - 85) * 0.1;  coolant += heat_gen - cooling
\* (heat_gen and cooling in 1/5000 of the stored unit)
next_coolant(coolant, rpm, th) ==
    LET heat_gen == rpm + 250 * th
        cooling == 500 * (coolant - 85 * Scale)
    IN  coolant + RoundDiv(heat_gen - cooling, 5000)

\* temp_diff = coolant - oil_temp;  oil_temp += temp_diff * 0.05
next_oil_temp(oil_temp, coolant) ==
    LET temp_diff == coolant - oil_temp
    IN  oil_temp + RoundDiv(temp_diff, 20)

\* base_pressure = rpm / 1000 * 8 + 20
\* temp_factor = 1.0 - (oil_temp - 80) / 200       (in 1/(10 * Scale))
\* OIL_PRESSURE = base_pressure * np.clip(temp_factor, 0.5, 1.5)
oil_pressure_of(rpm, oil_temp) ==
    LET base_pressure == RoundDiv(rpm * 8, 1000) + 20 * Scale
        temp_factor == 10 * Scale - RoundDiv(oil_temp - 80 * Scale, 20)
    IN  RoundDiv(base_pressure * np_clip(temp_factor, 5 * Scale, 15 * Scale),
                 10 * Scale)

\* fuel = throttle / 100 * 12 + rpm / 1000 * 0.8
fuel_of(rpm, th) == RoundDiv(1200 * th + 8 * rpm, 10000)

\* Faulty variant of next_mileage: assigns instead of accumulating
next_mileage_assign(m, speed) ==
    IF speed > 0 THEN RoundDiv(speed * (MileageScale \div Scale), 3600)
    ELSE m

\* if speed > 0: mileage += speed / 3600
next_mileage(m, speed) ==
    IF speed > 0 THEN m + RoundDiv(speed * (MileageScale \div Scale), 3600)
    ELSE m

\* Faulty variant of update_sensors: also writes the throttle to THROTTLE_POS
update_sensors_throttle_pos(s, th, g, m) ==
    LET rpm == next_rpm(s.RPM, th)
    IN  IF g.kind # "int"
        THEN [sensors |-> [s EXCEPT !.RPM = rpm], mileage |-> m,
              result |-> TypeError]
        ELSE
        LET speed == speed_of(rpm, g.v)
            coolant == next_coolant(s.COOLANT_TEMP, rpm, th)
            oil_temp == next_oil_temp(s.OIL_TEMP, coolant)
        IN  [sensors |-> [s EXCEPT !.RPM = rpm, !.SPEED = speed,
                                   !.ENGINE_LOAD = engine_load_of(th),
                                   !.THROTTLE_POS = th,
                                   !.COOLANT_TEMP = coolant,
                                   !.OIL_TEMP = oil_temp,
                                   !.OIL_PRESSURE = oil_pressure_of(rpm, oil_temp),
                                   !.FUEL_RATE = fuel_of(rpm, th)],
             mileage |-> next_mileage(m, speed),
             result |-> None]

\* The first k of the eight assignments of _update_sensors (RPM, SPEED,
\* ENGINE_LOAD, COOLANT_TEMP, OIL_TEMP, OIL_PRESSURE, FUEL_RATE, mileage),
\* run in order on stored values s, throttle th, gear g and mileage m.
\* Indexing gear_ratios with a float gear raises TypeError after RPM was
\* assigned.  A pass cut short before its end was cut by KeyboardInterrupt.
update_steps(s, th, g, m, k) ==
    LET s1 == IF k >= 1 THEN [s EXCEPT !.RPM = next_rpm(s.RPM, th)] ELSE s
    IN  IF k >= 2 /\ g.kind # "int"
        THEN [sensors |-> s1, mileage |-> m, result |-> TypeError]
        ELSE
        LET s2 == IF k >= 2
                  THEN [s1 EXCEPT !.SPEED = speed_of(s1.RPM, g.v)] ELSE s1
            s3 == IF k >= 3
                  THEN [s2 EXCEPT !.ENGINE_LOAD = engine_load_of(th)] ELSE s2
            s4 == IF k >= 4
                  THEN [s3 EXCEPT !.COOLANT_TEMP =
                            next_coolant(s3.COOLANT_TEMP, s3.RPM, th)]
                  ELSE s3
            s5 == IF k >= 5
                  THEN [s4 EXCEPT !.OIL_TEMP =
                            next_oil_temp(s4.OIL_TEMP, s4.COOLANT_TEMP)]
                  ELSE s4
            s6 == IF k >= 6
                  THEN [s5 EXCEPT !.OIL_PRESSURE =
                            oil_pressure_of(s5.RPM, s5.OIL_TEMP)]
                  ELSE s5
            s7 == IF k >= 7
                  THEN [s6 EXCEPT !.FUEL_RATE = fuel_of(s6.RPM, th)] ELSE s6
        IN  [sensors |-> s7,
             mileage |-> IF k >= 8 THEN next_mileage(m, s7.SPEED) ELSE m,
             result |-> IF k >= 8 THEN None ELSE Interrupted]

\* _update_sensors run to its end
update_sensors(s, th, g, m) == update_steps(s, th, g, m, 8)

\* Faulty variant of clip_throttle: no upper limit
clip_throttle_lower_only(t) == IF Milli(t) < 0 THEN 0 ELSE Milli(t)

\* self.throttle = np.clip(throttle, 0, 100)
clip_throttle(t) == np_clip(Milli(t), 0, 100 * Scale)

\* self.gear = np.clip(gear, 1, 6): an int stays an int, a float a float
clip_gear(g) ==
    IF g.kind = "int" THEN PyInt(np_clip(g.v, 1, 6))
    ELSE PyFloat(np_clip(g.v, 1 * Scale, 6 * Scale))

set_throttle(t) ==
    LET th == clip_throttle(t)
        u == update_sensors(sensors, th, gear, mileage)
    IN  /\ throttle' = th
        /\ sensors' = u.sensors
        /\ mileage' = u.mileage
        /\ result' = u.result
        /\ lastCall' = [op |-> "set_throttle", arg |-> t]
        /\ ticks' = ticks + 1
        /\ idleRun' = IF th = 0 THEN idleRun + 1 ELSE 0
        /\ UNCHANGED gear

set_gear(g) ==
    LET gr == clip_gear(g)
        u == update_sensors(sensors, throttle, gr, mileage)
    IN  /\ gear' = gr
        /\ sensors' = u.sensors
        /\ mileage' = u.mileage
        /\ result' = u.result
        /\ lastCall' = [op |-> "set_gear", arg |-> g]
        /\ ticks' = ticks + 1
        /\ idleRun' = 0
        /\ UNCHANGED throttle

\* set_throttle(t) cut by a KeyboardInterrupt after self.throttle was
\* stored and k assignments of _update_sensors ran
set_throttle_interrupted(t, k) ==
    LET th == clip_throttle(t)
        u == update_steps(sensors, th, gear, mileage, k)
    IN  /\ throttle' = th
        /\ sensors' = u.sensors
        /\ mileage' = u.mileage
        /\ result' = Interrupted
        /\ lastCall' = [op |-> "set_throttle", arg |-> t]
        /\ ticks' = ticks + 1
        /\ idleRun' = IF th = 0 THEN idleRun + 1 ELSE 0
        /\ UNCHANGED gear

\* set_gear(g) cut by a KeyboardInterrupt after self.gear was stored and k
\* assignments of _update_sensors ran
set_gear_interrupted(g, k) ==
    LET gr == clip_gear(g)
        u == update_steps(sensors, throttle, gr, mileage, k)
    IN  /\ gear' = gr
        /\ sensors' = u.sensors
        /\ mileage' = u.mileage
        /\ result' = Interrupted
        /\ lastCall' = [op |-> "set_gear", arg |-> g]
        /\ ticks' = ticks + 1
        /\ idleRun' = 0
        /\ UNCHANGED throttle

Init ==
    /\ sensors = InitialValue
    /\ throttle = 0
    /\ gear = PyInt(3)
    /\ mileage = 45230 * MileageScale
    /\ result = None
    /\ lastCall = [op |-> "__init__", arg |-> PyInt(0)]
    /\ ticks = 0
    /\ idleRun = 0
    /\ pc = [fn |-> "main", at |-> "start", i |-> 0]
    /\ history = <<>>
    /\ exportFile = [exists |-> FALSE, complete |-> FALSE, mileage |-> 0,
                     sensor_history |-> <<>>]
    /\ interrupted = FALSE

----------------------------------------------------------------------------
(* Specification Spec: any caller, any sequence of set_throttle and        *)
(* set_gear calls, arguments in and out of range, ints and floats.         *)

ThrottleInputs == {PyInt(-10), PyInt(0), PyInt(50), PyFloat(33300), PyInt(130)}
GearInputs == {PyInt(0), PyInt(5), PyInt(7), PyFloat(2500), PyFloat(4000)}

SetThrottle ==
    /\ ticks < MaxTicks
    /\ \E t \in ThrottleInputs : set_throttle(t)
    /\ UNCHANGED testerVars

SetGear ==
    /\ ticks < MaxTicks
    /\ \E g \in GearInputs : set_gear(g)
    /\ UNCHANGED testerVars

Next == SetThrottle \/ SetGear

Spec == Init /\ [][Next]_vars

----------------------------------------------------------------------------
(* Specification SpecDrive: long runs.  The first MaxPrefixTicks calls are  *)
(* chosen freely (throttle 50 or above range, gear below range or a        *)
(* float), then the caller holds full throttle, and from any point on it   *)
(* may switch to calling set_throttle(0) only.                             *)

DriveThrottleInputs == {PyInt(50), PyInt(130)}
DriveGearInputs == {PyInt(0), PyFloat(2500)}

DriveSetThrottle ==
    /\ idleRun = 0
    /\ ticks < MaxDriveTicks
    /\ \E t \in (IF ticks < MaxPrefixTicks THEN DriveThrottleInputs
                  ELSE {PyInt(130)}) : set_throttle(t)
    /\ UNCHANGED testerVars

DriveSetGear ==
    /\ idleRun = 0
    /\ ticks < MaxPrefixTicks
    /\ \E g \in DriveGearInputs : set_gear(g)
    /\ UNCHANGED testerVars

IdleCall ==
    /\ idleRun < MaxIdleCalls
    /\ set_throttle(PyInt(0))
    /\ UNCHANGED testerVars

NextDrive == DriveSetThrottle \/ DriveSetGear \/ IdleCall

SpecDrive == Init /\ [][NextDrive]_vars

----------------------------------------------------------------------------
(* Specification SpecRead: set_throttle(0), set_throttle(130) and          *)
(* set_gear(0) in any order, and read() of any channel in any state        *)
(* reached.  The noise of random.uniform is continuous; the model draws a  *)
(* sample of it: the two ends and two inner points of                      *)
(* [-noise_level, noise_level].                                            *)

NoiseDraws(name) ==
    LET L == noise_level[name]
    IN  {-L, -(L \div 3), L \div 7, L}

ReadSetThrottle ==
    /\ ticks < MaxReadTicks
    /\ \E t \in {PyInt(0), PyInt(130)} : set_throttle(t)
    /\ UNCHANGED testerVars

ReadSetGear ==
    /\ ticks < MaxReadTicks
    /\ set_gear(PyInt(0))
    /\ UNCHANGED testerVars

Read ==
    /\ \E name \in Channels : \E noise \in NoiseDraws(name) :
        \E up \in TieBreaks(np_clip(sensors[name] + noise,
                                    min_value[name], max_value[name])) :
          /\ result' = read(name, sensors[name], noise, up)
          /\ lastCall' = [op |-> "read", arg |-> PyFloat(noise)]
    /\ UNCHANGED <<sensors, throttle, gear, mileage, ticks, idleRun>>
    /\ UNCHANGED testerVars

NextRead == ReadSetThrottle \/ ReadSetGear \/ Read

SpecRead == Init /\ [][NextRead]_vars

----------------------------------------------------------------------------
(* Specification SpecDriver: main() running DigitalTwinTester's            *)
(* run_full_test_suite, with a KeyboardInterrupt possible at any statement *)
(* of the suite, inside a tick and inside export_data included.  A         *)
(* snapshot appended to history is represented by the number of the tick   *)
(* whose state it read.                                                    *)

\* the duration run_full_test_suite passes to each test
duration(fn) ==
    CASE fn = "test_idle" -> 5
      [] fn = "test_acceleration" -> 10
      [] fn = "test_steady_cruise" -> 10
      [] fn = "test_high_load" -> 8

\* the throttle a test sets: once before its loop, or (test_acceleration)
\* min(100, i * 10) in iteration i
test_throttle(fn, i) ==
    CASE fn = "test_idle" -> 0
      [] fn = "test_acceleration" -> IF i * 10 < 100 THEN i * 10 ELSE 100
      [] fn = "test_steady_cruise" -> 50
      [] fn = "test_high_load" -> 90

\* the gear test_steady_cruise and test_high_load set
test_gear(fn) == IF fn = "test_steady_cruise" THEN 5 ELSE 3

At(fn, at, i) == [fn |-> fn, at |-> at, i |-> i]

InSuite == pc.fn # "main"

\* main: tester.run_full_test_suite() enters test_idle
MainStart ==
    /\ pc = At("main", "start", 0)
    /\ pc' = At("test_idle", "set_throttle", 0)
    /\ UNCHANGED <<history, exportFile, interrupted>>
    /\ UNCHANGED simVars

\* self.car.set_throttle(...) of a test
TesterSetThrottle ==
    /\ InSuite /\ pc.at = "set_throttle"
    /\ set_throttle(PyInt(test_throttle(pc.fn, pc.i)))
    /\ pc' = [pc EXCEPT !.at =
                 IF pc.fn \in {"test_steady_cruise", "test_high_load"}
                 THEN "set_gear" ELSE "read"]
    /\ UNCHANGED <<history, exportFile, interrupted>>

\* self.car.set_gear(...) of test_steady_cruise and test_high_load
TesterSetGear ==
    /\ InSuite /\ pc.at = "set_gear"
    /\ set_gear(PyInt(test_gear(pc.fn)))
    /\ pc' = [pc EXCEPT !.at = "read"]
    /\ UNCHANGED <<history, exportFile, interrupted>>

\* data = self.car.read_all_sensors(); self.history.append(data)
TesterRead ==
    /\ InSuite /\ pc.at = "read"
    /\ history' = Append(history, ticks)
    /\ pc' = [pc EXCEPT !.at = "sleep"]
    /\ UNCHANGED <<exportFile, interrupted>>
    /\ UNCHANGED simVars

\* time.sleep(1) ending a loop iteration; after the last one the test returns
TesterSleep ==
    /\ InSuite /\ pc.at = "sleep"
    /\ pc' = IF pc.i + 1 < duration(pc.fn)
             THEN At(pc.fn, IF pc.fn = "test_acceleration"
                            THEN "set_throttle" ELSE "read", pc.i + 1)
             ELSE At(pc.fn, "return", 0)
    /\ UNCHANGED <<history, exportFile, interrupted>>
    /\ UNCHANGED simVars

\* run_full_test_suite: time.sleep(1) after a test, then the next test
SuiteSleep ==
    /\ InSuite /\ pc.at = "return"
    /\ pc' = CASE pc.fn = "test_idle" -> At("test_acceleration", "set_throttle", 0)
               [] pc.fn = "test_acceleration" -> At("test_steady_cruise", "set_throttle", 0)
               [] pc.fn = "test_steady_cruise" -> At("test_high_load", "set_throttle", 0)
               [] pc.fn = "test_high_load" -> At("run_full_test_suite", "get_status_summary", 0)
    /\ UNCHANGED <<history, exportFile, interrupted>>
    /\ UNCHANGED simVars

\* get_status_summary, analyze_health, predict_maintenance: print only
Report ==
    /\ pc.fn = "run_full_test_suite"
    /\ pc.at \in {"get_status_summary", "analyze_health", "predict_maintenance"}
    /\ pc' = [pc EXCEPT !.at =
                 CASE pc.at = "get_status_summary" -> "analyze_health"
                   [] pc.at = "analyze_health" -> "predict_maintenance"
                   [] pc.at = "predict_maintenance" -> "export_data"]
    /\ UNCHANGED <<history, exportFile, interrupted>>
    /\ UNCHANGED simVars

\* export_data, open(filename, 'w'): the file is created or truncated
export_open ==
    [exists |-> TRUE, complete |-> FALSE, mileage |-> 0,
     sensor_history |-> <<>>]

\* export_data, json.dump: the document is written piece by piece.  Piece 0
\* is the head with the mileage, piece j the j-th snapshot of the history.
export_dump(file, m, hist, j) ==
    IF j = 0 THEN [file EXCEPT !.mileage = m]
    ELSE [file EXCEPT !.sensor_history = Append(@, hist[j])]

\* export_data, the end of json.dump and of the with block: the document is
\* closed and whole
export_close(file) == [file EXCEPT !.complete = TRUE]

ExportOpen ==
    /\ pc = At("run_full_test_suite", "export_data", 0)
    /\ exportFile' = export_open
    /\ pc' = At("export_data", "dump", 0)
    /\ UNCHANGED <<history, interrupted>>
    /\ UNCHANGED simVars

ExportDump ==
    /\ pc.fn = "export_data" /\ pc.at = "dump"
    /\ pc.i <= Len(history)
    /\ exportFile' = export_dump(exportFile, mileage, history, pc.i)
    /\ pc' = [pc EXCEPT !.i = pc.i + 1]
    /\ UNCHANGED <<history, interrupted>>
    /\ UNCHANGED simVars

ExportClose ==
    /\ pc.fn = "export_data" /\ pc.at = "dump"
    /\ pc.i = Len(history) + 1
    /\ exportFile' = export_close(exportFile)
    /\ pc' = At("run_full_test_suite", "complete", 0)
    /\ UNCHANGED <<history, interrupted>>
    /\ UNCHANGED simVars

\* the closing prints of run_full_test_suite, then back in main
SuiteComplete ==
    /\ pc = At("run_full_test_suite", "complete", 0)
    /\ pc' = At("main", "finish", 0)
    /\ UNCHANGED <<history, exportFile, interrupted>>
    /\ UNCHANGED simVars

\* a KeyboardInterrupt raised inside a test's set_throttle or set_gear call,
\* after the control input was stored and before _update_sensors ended,
\* leaves the simulator partly updated and unwinds to main's except clause
TickInterrupted ==
    /\ InSuite /\ pc.at \in {"set_throttle", "set_gear"}
    /\ \E k \in 0..7 :
          IF pc.at = "set_throttle"
          THEN set_throttle_interrupted(PyInt(test_throttle(pc.fn, pc.i)), k)
          ELSE set_gear_interrupted(PyInt(test_gear(pc.fn)), k)
    /\ interrupted' = TRUE
    /\ pc' = At("main", "except", 0)
    /\ UNCHANGED <<history, exportFile>>

\* a KeyboardInterrupt raised between two steps of run_full_test_suite (in a
\* time.sleep, a print, between two pieces written by export_data) unwinds
\* to main's except clause; a file being written is closed as it stands
KeyboardInterrupt ==
    /\ InSuite
    /\ interrupted' = TRUE
    /\ pc' = At("main", "except", 0)
    /\ UNCHANGED <<history, exportFile>>
    /\ UNCHANGED simVars

\* except KeyboardInterrupt: print("Test interrupted by user")
on_interrupt ==
    /\ UNCHANGED <<history, exportFile, interrupted>>

ExceptHandler ==
    /\ pc = At("main", "except", 0)
    /\ on_interrupt
    /\ pc' = At("main", "finish", 0)
    /\ UNCHANGED simVars

\* main's last print
MainFinish ==
    /\ pc = At("main", "finish", 0)
    /\ pc' = At("main", "done", 0)
    /\ UNCHANGED <<history, exportFile, interrupted>>
    /\ UNCHANGED simVars

NextDriver ==
    \/ MainStart \/ TesterSetThrottle \/ TesterSetGear \/ TesterRead
    \/ TesterSleep \/ SuiteSleep \/ Report
    \/ ExportOpen \/ ExportDump \/ ExportClose \/ SuiteComplete
    \/ TickInterrupted \/ KeyboardInterrupt \/ ExceptHandler \/ MainFinish

SpecDriver == Init /\ [][NextDriver]_vars

----------------------------------------------------------------------------
(* Properties *)

IsTick(op) == op \in {"set_throttle", "set_gear"}

\* the last call was a tick that ran to completion
Completed == IsTick(lastCall.op) /\ result.kind = "None"

StoredInBounds(c) == min_value[c] <= sensors[c] /\ sensors[c] <= max_value[c]

MayExceed == {"SPEED", "COOLANT_TEMP", "OIL_TEMP"}

\* C1 as stated: in every reachable state the stored value of each of the
\* ten channels lies within [min_value, max_value].
C1_AllStoredInBounds == \A c \in Channels : StoredInBounds(c)

\* C1 amended: the stored values of RPM, ENGINE_LOAD, THROTTLE_POS,
\* INTAKE_TEMP, MAF, FUEL_RATE and OIL_PRESSURE always lie within
\* [min_value, max_value]; SPEED, COOLANT_TEMP and OIL_TEMP never fall
\* below min_value (they can exceed max_value).
C1_BoundedChannels ==
    /\ \A c \in Channels \ MayExceed : StoredInBounds(c)
    /\ \A c \in MayExceed : min_value[c] <= sensors[c]

\* C1 witness: after a completed tick SPEED, COOLANT_TEMP and OIL_TEMP are
\* all stored above max_value while OIL_PRESSURE is within its bounds.
C1_Witness ==
    /\ Completed
    /\ \A c \in MayExceed : sensors[c] > max_value[c]
    /\ StoredInBounds("OIL_PRESSURE")

\* C2: the value of every Reading returned by read() lies within
\* [min_value, max_value] of its channel, whatever the stored value and the
\* noise draw.
C2_ReadInBounds ==
    result.kind = "Reading" =>
        /\ min_value[result.command] <= result.value
        /\ result.value <= max_value[result.command]

\* C2 witness: SPEED is stored above max_value and a read of SPEED returned
\* exactly max_value.
C2_Witness ==
    /\ result.kind = "Reading" /\ result.command = "SPEED"
    /\ sensors.SPEED > max_value.SPEED
    /\ result.value = max_value.SPEED

\* round(x) of Python on a float given in 1/Scale: nearest integer, an
\* exact half to the even neighbour
PyRound(milli) ==
    LET lo == milli \div Scale
        r == milli - lo * Scale
    IN  IF 2 * r < Scale THEN lo
        ELSE IF 2 * r > Scale THEN lo + 1
        ELSE IF lo % 2 = 0 THEN lo ELSE lo + 1

Clamp(x, lo, hi) == IF x < lo THEN lo ELSE IF x > hi THEN hi ELSE x

\* C3 as stated: after set_gear(g), for any g (out of range or not an
\* integer included), no error was raised and the stored gear is the integer
\* clamp(round(g), 1, 6).  The program violates it: set_gear(2.5) stores the
\* float 2.5, updates RPM and raises TypeError at gear_ratios[self.gear].
C3_AnyGearRounded ==
    lastCall.op = "set_gear" =>
        /\ result.kind # "TypeError"
        /\ gear = PyInt(Clamp(IF lastCall.arg.kind = "int" THEN lastCall.arg.v
                               ELSE PyRound(lastCall.arg.v), 1, 6))

\* C4: after set_throttle(t) the stored throttle is clamp(t, 0, 100), and
\* the stored throttle is within [0, 100] in every state.
C4_ThrottleClamped ==
    /\ 0 <= throttle /\ throttle <= 100 * Scale
    /\ lastCall.op = "set_throttle" =>
          throttle = Clamp(Milli(lastCall.arg), 0, 100 * Scale)

\* C4 witness: set_throttle(130) stored 100, and the pass that followed
\* used it (ENGINE_LOAD is 70).
C4_Witness ==
    /\ lastCall = [op |-> "set_throttle", arg |-> PyInt(130)]
    /\ throttle = 100 * Scale
    /\ sensors.ENGINE_LOAD = 70 * Scale

\* C5: mileage never decreases, and a tick that recomputed SPEED to a value
\* above 0 leaves mileage strictly greater than before.
C5_MileageMonotone ==
    [][/\ mileage' >= mileage
       /\ (ticks' = ticks + 1 /\ result'.kind = "None" /\ sensors'.SPEED > 0)
             => mileage' > mileage]_vars

\* C5 witness: a completed tick with SPEED above 0 and mileage above its
\* constructed value.
C5_Witness ==
    /\ Completed /\ sensors.SPEED > 0
    /\ mileage > 45230 * MileageScale

FirstCallIsThrottle50 ==
    ticks = 1 /\ lastCall = [op |-> "set_throttle", arg |-> PyInt(50)]

\* C6 as stated: from the constructed state, one set_throttle(50) leaves
\* the stored RPM at 825.
C6_Rpm825 == FirstCallIsThrottle50 => sensors.RPM = 825 * Scale

\* C6 amended: from the constructed state, one set_throttle(50) leaves the
\* stored RPM at 1050 (800 + (3300 - 800) * 0.1).
C6_Rpm1050 == FirstCallIsThrottle50 => sensors.RPM = 1050 * Scale

\* C6 witness: the state after the single call set_throttle(50).
C6_Witness == FirstCallIsThrottle50 /\ sensors.RPM = 1050 * Scale

RpmDistance(s) == Abs(s.RPM - 800 * Scale)

\* C7: every call storing throttle 0 leaves |RPM - 800| no larger and RPM
\* on the same side of 800, and after ConvergeCalls consecutive such calls
\* RPM is within 1 of 800 (and so stays there).
C7_IdleConverges ==
    /\ [](idleRun >= ConvergeCalls => RpmDistance(sensors) <= Scale)
    /\ [][idleRun' = idleRun + 1 =>
            /\ RpmDistance(sensors') <= RpmDistance(sensors)
            /\ (sensors.RPM >= 800 * Scale => sensors'.RPM >= 800 * Scale)]_vars

\* C7 witness: RPM was driven above 5000, and ConvergeCalls calls of
\* set_throttle(0) later it is within 1 of 800.
C7_Witness ==
    /\ idleRun = ConvergeCalls
    /\ ticks >= 30 + ConvergeCalls
    /\ RpmDistance(sensors) <= Scale

\* C8 as stated (its THROTTLE_POS part): after every completed tick
\* THROTTLE_POS holds the stored throttle.
C8_ThrottlePosFollows == Completed => sensors.THROTTLE_POS = throttle

\* C8 amended: every tick moves RPM one step toward its target and leaves
\* THROTTLE_POS, INTAKE_TEMP and MAF at their constructed values 15, 25
\* and 5; a tick that completes also recomputes SPEED, ENGINE_LOAD,
\* COOLANT_TEMP, OIL_TEMP and FUEL_RATE by the coupling equations (stated
\* here up to the rounding of the stored value) and keeps OIL_PRESSURE
\* between 0.5 and 1.5 times the base pressure; a tick that raises
\* TypeError changes no channel but RPM, and not the mileage.
C8_SevenRecomputed ==
    [][ticks' = ticks + 1 =>
        LET s == sensors
            n == sensors'
            th == throttle'
        IN  /\ n.THROTTLE_POS = 15 * Scale
            /\ n.INTAKE_TEMP = 25 * Scale
            /\ n.MAF = 5 * Scale
            /\ Abs(10 * (n.RPM - s.RPM) - (800 * Scale + 50 * th - s.RPM)) <= 5
            /\ result'.kind = "TypeError" =>
                /\ \A c \in Channels \ {"RPM"} : n[c] = s[c]
                /\ mileage' = mileage
            /\ result'.kind = "None" =>
                /\ Abs(600 * n.SPEED - n.RPM * gear_ratios[gear'.v]) <= 300
                /\ Abs(10 * n.ENGINE_LOAD - 7 * th) <= 5
                /\ Abs(5000 * (n.COOLANT_TEMP - s.COOLANT_TEMP)
                       - (n.RPM + 250 * th
                          - 500 * (s.COOLANT_TEMP - 85 * Scale))) <= 2500
                /\ Abs(20 * (n.OIL_TEMP - s.OIL_TEMP)
                       - (n.COOLANT_TEMP - s.OIL_TEMP)) <= 10
                /\ Abs(10000 * n.FUEL_RATE - (1200 * th + 8 * n.RPM)) <= 5000
                /\ 2 * n.OIL_PRESSURE >= 20 * Scale + (8 * n.RPM) \div 1000
                /\ 2 * n.OIL_PRESSURE <= 3 * (20 * Scale + (8 * n.RPM) \div 1000 + 1)
       ]_vars

\* C8 witness: a completed tick stored throttle 50 while THROTTLE_POS is
\* still 15 and ENGINE_LOAD is 35.
C8_Witness ==
    /\ Completed /\ throttle = 50 * Scale
    /\ sensors.THROTTLE_POS = 15 * Scale
    /\ sensors.ENGINE_LOAD = 35 * Scale

\* C9: when main() is done after a KeyboardInterrupt, the export file
\* exists, is a whole document and holds exactly the snapshots appended
\* before the interrupt.
C9_InterruptExports ==
    (pc.at = "done" /\ interrupted) =>
        /\ exportFile.exists /\ exportFile.complete
        /\ exportFile.sensor_history = history

\* C10: the stored RPM is always within [800, 5800]; while the stored gear
\* is an int, SPEED is 0 only before the first tick; every completed tick
\* computes a SPEED above 0 and strictly increases mileage.
C10_RpmRangeSpeedPositive ==
    /\ [](/\ 800 * Scale <= sensors.RPM /\ sensors.RPM <= 5800 * Scale
          /\ (ticks > 0 /\ gear.kind = "int") => sensors.SPEED > 0)
    /\ [][(ticks' = ticks + 1 /\ result'.kind = "None") =>
            (sensors'.SPEED > 0 /\ mileage' > mileage)]_vars

\* C10 witness: a completed set_throttle call at throttle 0, after RPM had
\* risen above 5000, with SPEED above 0 and mileage above its constructed
\* value.
C10_Witness ==
    /\ Completed /\ lastCall.op = "set_throttle" /\ throttle = 0
    /\ sensors.RPM > 5000 * Scale
    /\ sensors.SPEED > 0
    /\ mileage > 45230 * MileageScale

====
